---- MODULE Spec2Model ----
(***************************************************************************)
(* A model of the CloudTrail MCP server's tool handlers: the Lake query    *)
(* lifecycle (submit, poll, results), the paginated lookups, and the token *)
(* limiter that gates the text of a tool call.                             *)
(*                                                                         *)
(* One invocation runs at a time: Init is the idle server, an entry action *)
(* starts a handler with arguments drawn from small sets, and each further *)
(* action is the code between two awaits of that handler, with the         *)
(* collaborator's answer (or failure) to the awaited request drawn         *)
(* nondeterministically.                                                   *)
(***************************************************************************)
EXTENDS Integers, Sequences, FiniteSets, Bags, TLC

VARIABLES
    pc,                 \* position of the running invocation ("idle" when none)
    stack,              \* call stack of the running invocation: the handlers' args
    sent,               \* bag of the collaborator requests issued by the invocation
    queryId,            \* handleLakeQuery: startResponse.QueryId
    queryStatus,        \* handleLakeQuery: let queryStatus
    finalErrorMessage,  \* handleLakeQuery: let finalErrorMessage
    elapsed,            \* handleLakeQuery: let elapsed
    polls,              \* status queries issued by the polling loop
    slept,              \* total ms the invocation has slept
    queryTime,          \* total ms the invocation's status queries took to answer
    observed,           \* the collaborator's answers the invocation has read last
    out,                \* how the invocation ended: text returned or error thrown
    text,               \* lookup_events callback: const text
    tokenCheck,         \* lookup_events callback: const tokenCheck
    acquired,           \* tokenizer instances acquired by the invocation
    live,               \* tokenizer instances acquired and not yet freed
    storeIdx,           \* handleListEventDataStores: let i
    storeLines,         \* handleListEventDataStores: const lines
    storeRows,          \* the rows the collaborator holds for the query being paged
    printed,            \* what the calls of a paged sequence have printed so far
    transports,         \* main, HTTP mode: const transports, session id -> transport
    created,            \* HTTP mode: how many transports (and servers) were created
    sessionIds,         \* each created transport's own session id, once it has one
    requests,           \* HTTP mode: the requests being handled, and their positions
    resStatus,          \* HTTP mode: the status of the response written last
    initialized,        \* the session ids onsessioninitialized was called with
    closed              \* the session ids onsessionclosed was called with

vars == <<pc, stack, sent, queryId, queryStatus, finalErrorMessage, elapsed, polls,
          slept, queryTime, observed, out, text, tokenCheck, acquired, live,
          storeIdx, storeLines, storeRows, printed,
          transports, created, sessionIds, requests, resStatus, initialized, closed>>

lakeVars == <<queryId, queryStatus, finalErrorMessage, elapsed, polls, slept, queryTime>>
tokenVars == <<text, tokenCheck, acquired, live>>
storeVars == <<storeIdx, storeLines>>
pagingVars == <<storeRows, printed>>
httpVars == <<transports, created, sessionIds, requests, resStatus, initialized, closed>>
otherVars == <<storeVars, pagingVars, httpVars>>
handlerVars == <<pc, stack, sent, lakeVars, observed, out, tokenVars, storeVars, pagingVars>>

(***************************************************************************)
(* Optional values: undefined is the empty tuple, a present value v is     *)
(* the tuple <<v>>.                                                        *)
(***************************************************************************)
None == <<>>
Some(v) == <<v>>
\* a ?? b
Coalesce(a, b) == IF a = None THEN b ELSE a[1]
\* JavaScript truthiness of an optional string: undefined and "" are falsy
Truthy(a) == a # None /\ a[1] # ""

Min(a, b) == IF a < b THEN a ELSE b
Max(a, b) == IF a > b THEN a ELSE b

(***************************************************************************)
(* Bounds of the model.                                                    *)
(***************************************************************************)
\* how many status queries of one invocation may be slow to answer
MaxSlowQueries == 1
\* how many rows or events the collaborator holds for one page
MaxRows == 2
\* the requested maxResults range over -1 .. MaxRequested and the omitted value
MaxRequested == 52
\* the smaller of the token limits a server is registered with
LowLimit == 27
\* the small amounts of the relative time strings are 0 .. MaxAmount
MaxAmount == 2
\* how many rows the query of a sequence of paged calls may hold
MaxStoreRows == 3
\* how many event data stores the collaborator may list
MaxStores == 2
\* the day of the model's clock, counted from the epoch
NowDay == 20000

(***************************************************************************)
(* Program constants.                                                      *)
(***************************************************************************)
MAX_POLL_SECONDS == 300
POLL_INTERVAL_MS == 2000
\* handleGetQueryResults and handleLookupEvents: validateMaxResults(.., def, max)
RESULTS_DEFAULT == 50
EVENTS_DEFAULT == 10
PAGE_MAX == 50
\* createCloudTrailMcpServer: process.env.MAX_TOKEN_CALL ?? '20000'
DEFAULT_MAX_TOKEN_CALL == 20000
\* createCloudTrailClient: requestTimeout, the longest a request may take
DEFAULT_TIMEOUT == 30000

(***************************************************************************)
(* The collaborator (CloudTrail) as the handlers see it.                   *)
(***************************************************************************)
QueryIds == {"q-1", "q-2"}
Regions == {None, Some("eu-west-1")}
TerminalStatuses == {"FINISHED", "FAILED", "CANCELLED", "TIMED_OUT"}
ServiceStatuses == {"QUEUED", "RUNNING"} \cup TerminalStatuses
ErrorMessages == {None, Some(""), Some("Query failed: syntax error")}
CollaboratorErrors == {"AccessDeniedException"}
\* a status query is answered at once or after the request timeout at the latest
QueryLatencies == {0, DEFAULT_TIMEOUT}

\* DescribeQuery responses: QueryStatus and ErrorMessage are both optional;
\* the service attaches no error message to a FINISHED query
DescribeResponses ==
    {r \in [QueryStatus : {None} \cup {Some(s) : s \in ServiceStatuses},
            ErrorMessage : ErrorMessages] :
        r.QueryStatus = Some("FINISHED") => r.ErrorMessage = None}

\* args.region ?? config.region ?? process.env.AWS_DEFAULT_REGION ?? 'us-east-1'
\* (config.region is process.env.AWS_DEFAULT_REGION, unset here)
ResolveRegion(region) == Coalesce(region, Coalesce(None, Coalesce(None, "us-east-1")))

StartQueryCommand(region, sql) ==
    [op |-> "StartQuery", region |-> region, QueryStatement |-> sql]
DescribeQueryCommand(region, id) ==
    [op |-> "DescribeQuery", region |-> region, QueryId |-> id]
GetQueryResultsCommand(region, id, max, token) ==
    [op |-> "GetQueryResults", region |-> region, QueryId |-> id,
     MaxQueryResults |-> max, NextToken |-> token]

ListEventDataStoresCommand(region) == [op |-> "ListEventDataStores", region |-> region]
GetEventDataStoreCommand(region, arn) ==
    [op |-> "GetEventDataStore", region |-> region, EventDataStore |-> arn]

\* client.send(command): the request leaves the process
Send(bag, command) == bag (+) SetToBag({command})
Count(bag, operation) ==
    LET hits == {c \in BagToSet(bag) : c.op = operation}
    IN  BagCardinality([c \in hits |-> bag[c]])

Text(lines) == [kind |-> "text", text |-> lines]
Thrown(error) == [kind |-> "error", error |-> error]
NoOut == [kind |-> "none"]
\* failed is the operation of the request the collaborator failed last
NoObserved ==
    [describe |-> None, results |-> None, events |-> None, stores |-> None,
     failed |-> None]
\* the collaborator failed the request
Failed(operation) == [observed EXCEPT !.failed = Some(operation)]
NoCheck == [kind |-> "none"]

(***************************************************************************)
(* Result Formatter: a text is the sequence of its lines, a line the       *)
(* sequence of the words the template literal puts on it.                  *)
(***************************************************************************)
\* the acknowledgement printing a fixed status
FormatSubmittedFixedStatus(region, id, status) ==
    << <<"Query submitted (region:", region, ")">>,
       <<"Query ID:", id>>,
       <<"Status:", "RUNNING">>,
       <<>>,
       <<"Use get_query_status to poll for completion, then get_query_results to fetch results.">> >>

\* handleLakeQuery, waitForCompletion false: the acknowledgement
FormatSubmitted(region, id, status) ==
    << <<"Query submitted (region:", region, ")">>,
       <<"Query ID:", id>>,
       <<"Status:", status>>,
       <<>>,
       <<"Use get_query_status to poll for completion, then get_query_results to fetch results.">> >>

\* the report of a non-FINISHED query without line 87
FormatCompletedNoError(region, id, status, message) ==
    << <<"Query completed with status:", status, "(region:", region, ")">>,
       <<"Query ID:", id>> >>

\* handleLakeQuery, after the loop: status, query id and the error message if truthy
FormatCompleted(region, id, status, message) ==
    << <<"Query completed with status:", status, "(region:", region, ")">>,
       <<"Query ID:", id>> >>
    \o (IF Truthy(message) THEN << <<"Error:", message[1]>> >> ELSE <<>>)

\* rows.forEach: a marker line and one line per cell of the row
RECURSIVE FormatRows(_, _)
FormatRows(rows, idx) ==
    IF rows = <<>> THEN <<>>
    ELSE << <<"--- Row", ToString(idx), "---">> >>
         \o [c \in 1..Len(Head(rows)) |-> <<Head(rows)[c][1], ":", Head(rows)[c][2]>>]
         \o FormatRows(Tail(rows), idx + 1)

\* handleGetQueryResults: header, rows (or their absence), pagination hint
\* (the collaborator's answers carry no QueryStatistics here)
FormatQueryResults(region, id, results, status) ==
    LET rows == Coalesce(results.QueryResultRows, <<>>)
    IN  << <<"CloudTrail Lake Query Results (region:", region, ")">>,
           <<"Query ID:", id>>,
           <<"Status:", Coalesce(status.QueryStatus, "UNKNOWN")>>,
           <<"Rows:", ToString(Len(rows))>>,
           <<>> >>
        \o (IF Len(rows) = 0 THEN << <<"No results returned.">> >> ELSE FormatRows(rows, 1))
        \o (IF Truthy(results.NextToken)
            THEN << <<>>,
                    <<"More results available. Use nextToken for the next page:">>,
                    <<"nextToken:", results.NextToken[1]>> >>
            ELSE <<>>)

\* handleGetQueryStatus, lines 116-145 (the collaborator's answers carry
\* no QueryStatistics and no DeliveryS3Uri here)
FormatQueryStatus(region, id, response) ==
    << <<"CloudTrail Lake Query Status (region:", region, ")">>,
       <<"Query ID:", id>>,
       <<"Status:", Coalesce(response.QueryStatus, "UNKNOWN")>> >>
    \o (IF Truthy(response.ErrorMessage)
        THEN << <<>>, <<"Error:", response.ErrorMessage[1]>> >>
        ELSE <<>>)

\* handleListEventDataStores, lines 245-249 and 252-255
FormatStoresHeader(region, count) ==
    << <<"CloudTrail Lake Event Data Stores (region:", region, ")">>,
       <<"Found:", ToString(count), "store(s)">>,
       <<>> >>
NoStoresLine ==
    <<"No Event Data Stores found in this region.",
      "CloudTrail Lake must be enabled and configured.">>
\* lines 261-264 (the stores carry no RetentionPeriod and no CreatedTimestamp)
FormatStore(store, idx) ==
    << <<"--- Store", ToString(idx + 1), "---">>,
       <<"Name:", Coalesce(store.Name, "Unknown")>>,
       <<"ARN:", Coalesce(store.EventDataStoreArn, "Unknown")>>,
       <<"Status:", Coalesce(store.Status, "Unknown")>> >>
\* lines 275-281
FormatStoreDetails(details) ==
    (IF details.MultiRegionEnabled # None
     THEN << <<"Multi-region:", details.MultiRegionEnabled[1]>> >> ELSE <<>>)
    \o (IF details.OrganizationEnabled # None
        THEN << <<"Org-enabled:", details.OrganizationEnabled[1]>> >> ELSE <<>>)
    \o (IF details.AdvancedEventSelectors # None /\ details.AdvancedEventSelectors[1] > 0
        THEN << <<"Event selectors:", ToString(details.AdvancedEventSelectors[1])>> >>
        ELSE <<>>)
\* line 283
UnableLine == <<"(Unable to retrieve detailed configuration)">>
\* lines 290-292
TipLine ==
    <<"Tip: Use the EventDataStoreArn (without the full ARN prefix)",
      "as the FROM clause ID in lake_query SQL statements.">>

(***************************************************************************)
(* Pagination Controller helpers.                                          *)
(***************************************************************************)
\* validateMaxResults without the Math.max(1, ..)
validateMaxResultsNoFloor(value, def, max) ==
    IF value = None THEN def ELSE Min(max, value[1])

validateMaxResults(value, def, max) ==
    IF value = None THEN def ELSE Max(1, Min(max, value[1]))

\* line 168 without the token
QueryResultsTokenDropped(nextToken) == None

\* line 168 passing a token on even when it is the empty string
QueryResultsTokenKeepEmpty(nextToken) == nextToken

\* line 168: ...(args.nextToken ? { NextToken: args.nextToken } : {})
QueryResultsToken(nextToken) == IF Truthy(nextToken) THEN nextToken ELSE None

\* handleLookupEvents, lines 107-109: if (args.nextToken) params.NextToken = ..
LookupEventsToken(nextToken) == IF Truthy(nextToken) THEN nextToken ELSE None

\* the rows the collaborator holds, in its order; a row is a list of cells
ServiceRow(i) == << <<"eventname", ToString(i)>> >>
ServiceRows(n) == [i \in 1..n |-> ServiceRow(i)]
PageTokens == {None, Some("token-2")}
\* GetQueryResults responses to a request for at most max rows
ResultsResponses(max) ==
    [QueryResultRows : {None} \cup {Some(ServiceRows(n)) : n \in 0..Min(MaxRows, max)},
     NextToken : PageTokens]
\* the status answers handleGetQueryResults distinguishes: it stores the
\* error message and never renders it
ResultsStatusResponses == {r \in DescribeResponses : r.ErrorMessage = None}

(***************************************************************************)
(* Time Parser.  A time string is a string.  An instant is the time value  *)
(* of a Date, a whole number of ms since the epoch, held as <<day, ms>>    *)
(* with ms in 0 .. MS_PER_DAY - 1: the numbers the code computes with      *)
(* reach 8.64e15 and beyond.  The arithmetic below is exact; the code's    *)
(* doubles are exact up to 2^53, which lies beyond the range of a Date.    *)
(***************************************************************************)
MS_PER_DAY == 86400000
\* the range of a Date: 8.64e15 ms on either side of the epoch
MAX_TIME_DAYS == 100000000
\* the Date whose time value is NaN
InvalidDate == <<>>
Epoch == <<0, 0>>

\* a number of ms below 2^31 as <<day, ms>>
Ms(n) == <<n \div MS_PER_DAY, n % MS_PER_DAY>>
\* n * d, for a duration d whose ms part divides a day
Scale(n, d) ==
    IF d[2] = 0 THEN <<n * d[1], 0>>
    ELSE LET perDay == MS_PER_DAY \div d[2]
         IN  <<n * d[1] + (n \div perDay), (n % perDay) * d[2]>>
\* a - b
Minus(a, b) ==
    IF a[2] >= b[2] THEN <<a[1] - b[1], a[2] - b[2]>>
    ELSE <<a[1] - b[1] - 1, a[2] - b[2] + MS_PER_DAY>>
\* new Date(value): a time value out of range makes an invalid Date
NewDate(t) ==
    IF t[1] >= -MAX_TIME_DAYS /\ (t[1] < MAX_TIME_DAYS \/ t = <<MAX_TIME_DAYS, 0>>)
    THEN t ELSE InvalidDate

Units == {"second", "minute", "hour", "day", "week", "month"}
\* lines 397-404: const ms
unitMs(unit) ==
    CASE unit = "second" -> Ms(1000)
      [] unit = "minute" -> Ms(60 * 1000)
      [] unit = "hour" -> Ms(3600 * 1000)
      [] unit = "day" -> Ms(86400 * 1000)
      [] unit = "week" -> Scale(7, Ms(86400 * 1000))
      [] unit = "month" -> Scale(30, Ms(86400 * 1000))

\* the relative strings the regular expression of parseTimeInput matches
RelativeString(amount, unit, plural) ==
    ToString(amount) \o " " \o unit \o (IF plural THEN "s" ELSE "") \o " ago"
\* the clock of this model: a day of 2024, at midnight and 1500 ms later
Clocks == {<<NowDay, 0>>, <<NowDay, 1500>>}
\* the amounts of the relative strings: the small ones, and the two around
\* the number of weeks that lead from the clock's day to the first day a
\* Date can hold
FarAmount == (MAX_TIME_DAYS + NowDay) \div 7
Amounts == (0..MaxAmount) \cup {FarAmount, FarAmount + 1}
\* the instants the callers and the clock of this model speak of
Instants ==
    ({NewDate(Minus(now, Scale(n, unitMs(u)))) : now \in Clocks, n \in Amounts, u \in Units}
        \cup {Epoch}) \ {InvalidDate}
\* the date-time string of an instant: UTC, to the millisecond
DateTimeString(t) == "D" \o ToString(t[1]) \o "T" \o ToString(t[2]) \o "Z"
\* a rendering that stops at the second
toISOStringSeconds(t) == DateTimeString(<<t[1], (t[2] \div 1000) * 1000>>)
\* Date.prototype.toISOString (of a valid Date), and the Date constructor
\* reading a date-time string
toISOString(t) == DateTimeString(t)
ParsesAsDate(input) == \E t \in Instants : DateTimeString(t) = input
DateOf(input) == CHOOSE t \in Instants : DateTimeString(t) = input

\* lines 386-415; ok is FALSE when the function throws
parseTimeInput(input, now) ==
    IF input = "now" THEN [ok |-> TRUE, time |-> now]
    ELSE IF \E n \in Amounts, u \in Units, pl \in BOOLEAN : input = RelativeString(n, u, pl)
    THEN LET m == CHOOSE m \in Amounts \X Units :
                      \E pl \in BOOLEAN : input = RelativeString(m[1], m[2], pl)
             amount == m[1]
             unit == m[2]
         IN  [ok |-> TRUE, time |-> NewDate(Minus(now, Scale(amount, unitMs(unit))))]
    ELSE IF ParsesAsDate(input) THEN [ok |-> TRUE, time |-> DateOf(input)]
    ELSE [ok |-> FALSE]

(***************************************************************************)
(* Token Budgeter.                                                         *)
(***************************************************************************)
\* words the tokenizer refuses to encode unless they are allowed
SpecialTokens == {"<|endoftext|>"}

RECURSIVE Words(_)
Words(lines) == IF lines = <<>> THEN <<>> ELSE Head(lines) \o Words(Tail(lines))

\* enc.encode(text): one token per word; a special token in the text throws
CannotEncode(lines) ==
    LET words == Words(lines) IN \E i \in 1..Len(words) : words[i] \in SpecialTokens
Encode(lines) == Words(lines)

\* calculateTokens without its finally: the encoder is freed only when
\* encode returns
calculateTokensNoFinally(lines) ==
    [threw |-> CannotEncode(lines), tokens |-> Len(Encode(lines)),
     acquired |-> 1, freed |-> IF CannotEncode(lines) THEN 0 ELSE 1]

\* lines 10-17: acquire the encoder, encode, free in finally
calculateTokens(lines) ==
    [threw |-> CannotEncode(lines), tokens |-> Len(Encode(lines)),
     acquired |-> 1, freed |-> 1]

TokenLimitError(tokens, maxTokens) ==
    <<"Token limit exceeded: result contains", ToString(tokens), "tokens (limit:",
      ToString(maxTokens), ").",
      "To reduce output size, try: reduce maxResults,",
      "narrow the time range (startTime/endTime),",
      "add more specific filters (attributeKey/attributeValue),",
      "add a LIMIT clause to SQL queries,",
      "or set break_token_rule: true to bypass this check.">>

\* checkTokenLimit refusing a text of exactly maxTokens tokens
checkTokenLimitAtLeast(result, maxTokens, breakRule) ==
    IF breakRule
    THEN [threw |-> FALSE, allowed |-> TRUE, tokens |-> 0, error |-> None,
          acquired |-> 0, freed |-> 0]
    ELSE LET measured == calculateTokens(result)
             tokens == measured.tokens
         IN  IF measured.threw
             THEN [threw |-> TRUE, acquired |-> measured.acquired, freed |-> measured.freed]
             ELSE IF tokens >= maxTokens
             THEN [threw |-> FALSE, allowed |-> FALSE, tokens |-> tokens,
                   error |-> Some(TokenLimitError(tokens, maxTokens)),
                   acquired |-> measured.acquired, freed |-> measured.freed]
             ELSE [threw |-> FALSE, allowed |-> TRUE, tokens |-> tokens, error |-> None,
                   acquired |-> measured.acquired, freed |-> measured.freed]

\* checkTokenLimit measuring the text before it looks at breakRule
checkTokenLimitMeasureFirst(result, maxTokens, breakRule) ==
    LET measured == calculateTokens(result)
    IN  IF measured.threw
        THEN [threw |-> TRUE, acquired |-> measured.acquired, freed |-> measured.freed]
        ELSE IF breakRule
        THEN [threw |-> FALSE, allowed |-> TRUE, tokens |-> 0, error |-> None,
              acquired |-> measured.acquired, freed |-> measured.freed]
        ELSE IF measured.tokens > maxTokens
        THEN [threw |-> FALSE, allowed |-> FALSE, tokens |-> measured.tokens,
              error |-> Some(TokenLimitError(measured.tokens, maxTokens)),
              acquired |-> measured.acquired, freed |-> measured.freed]
        ELSE [threw |-> FALSE, allowed |-> TRUE, tokens |-> measured.tokens,
              error |-> None, acquired |-> measured.acquired, freed |-> measured.freed]

\* lines 19-44
checkTokenLimit(result, maxTokens, breakRule) ==
    IF breakRule
    THEN [threw |-> FALSE, allowed |-> TRUE, tokens |-> 0, error |-> None,
          acquired |-> 0, freed |-> 0]
    ELSE LET measured == calculateTokens(result)
             tokens == measured.tokens
         IN  IF measured.threw
             THEN [threw |-> TRUE, acquired |-> measured.acquired, freed |-> measured.freed]
             ELSE IF tokens > maxTokens
             THEN [threw |-> FALSE, allowed |-> FALSE, tokens |-> tokens,
                   error |-> Some(TokenLimitError(tokens, maxTokens)),
                   acquired |-> measured.acquired, freed |-> measured.freed]
             ELSE [threw |-> FALSE, allowed |-> TRUE, tokens |-> tokens, error |-> None,
                   acquired |-> measured.acquired, freed |-> measured.freed]

(***************************************************************************)
(* lookup_events: the collaborator's events and their rendering.           *)
(***************************************************************************)
Usernames == {"alice", "<|endoftext|>"}
ServiceEvent(i, user) ==
    [EventId |-> Some(ToString(i)), EventName |-> Some("ConsoleLogin"),
     ReadOnly |-> None, AccessKeyId |-> None, EventTime |-> Some(Epoch),
     EventSource |-> Some("signin.amazonaws.com"), Username |-> Some(user),
     Resources |-> None]
ServiceEvents(n, user) == [i \in 1..n |-> ServiceEvent(i, user)]
\* LookupEvents responses to a request for at most max events
LookupEventsResponses(max) ==
    [Events : {None} \cup {Some(ServiceEvents(n, u)) : n \in 0..Min(MaxRows, max),
                                                       u \in Usernames},
     NextToken : PageTokens]

LookupEventsCommand(region, start, end, max, attributes, token) ==
    [op |-> "LookupEvents", region |-> region, StartTime |-> start, EndTime |-> end,
     MaxResults |-> max, LookupAttributes |-> attributes, NextToken |-> token]

\* formatEvent: seven lines, then the resources if there are any
formatEvent(event) ==
    << <<"Event:", Coalesce(event.EventName, "Unknown")>>,
       <<"Source:", Coalesce(event.EventSource, "Unknown")>>,
       <<"Time:", IF event.EventTime = None THEN "Unknown"
                  ELSE toISOString(event.EventTime[1])>>,
       <<"User:", Coalesce(event.Username, "Unknown")>>,
       <<"Access Key:", Coalesce(event.AccessKeyId, "N/A")>>,
       <<"Read Only:", Coalesce(event.ReadOnly, "Unknown")>>,
       <<"Event ID:", Coalesce(event.EventId, "Unknown")>> >>
    \o (IF event.Resources # None /\ Len(event.Resources[1]) > 0
        THEN << <<"Resources:">> >>
             \o [r \in 1..Len(event.Resources[1]) |->
                    <<Coalesce(event.Resources[1][r].ResourceType, "Unknown"), ":",
                      Coalesce(event.Resources[1][r].ResourceName, "Unknown")>>]
        ELSE <<>>)

RECURSIVE FormatEvents(_, _)
FormatEvents(events, idx) ==
    IF events = <<>> THEN <<>>
    ELSE << <<"--- Event", ToString(idx), "---">> >>
         \o formatEvent(Head(events)) \o << <<>> >>
         \o FormatEvents(Tail(events), idx + 1)

\* handleLookupEvents, lines 140-170
FormatLookupEvents(region, startDt, endDt, attributeKey, attributeValue, response) ==
    LET events == Coalesce(response.Events, <<>>)
    IN  << <<"CloudTrail Events (region:", region, ")">>,
           <<"Time range:", toISOString(startDt), "->", toISOString(endDt)>> >>
        \o (IF Truthy(attributeKey)
            THEN << <<"Filter:", attributeKey[1], "=",
                      Coalesce(attributeValue, "undefined")>> >>
            ELSE <<>>)
        \o << <<"Found:", ToString(Len(events)), "event(s)">>, <<>> >>
        \o (IF Len(events) = 0
            THEN << <<"No events found matching the specified criteria.">> >>
            ELSE FormatEvents(events, 1))
        \o (IF Truthy(response.NextToken)
            THEN << <<"More results available. Use nextToken for the next page:">>,
                    <<"nextToken:", response.NextToken[1]>>,
                    <<"startTime:", toISOString(startDt), "(must match original request)">>,
                    <<"endTime:", toISOString(endDt), "(must match original request)">> >>
            ELSE <<>>)

(***************************************************************************)
(* list_event_data_stores: the collaborator's stores and their details.    *)
(***************************************************************************)
\* the k-th store of a list, with or without an ARN
ServiceStore(k, hasArn) ==
    [Name |-> Some("store-" \o ToString(k)),
     EventDataStoreArn |-> IF hasArn THEN Some("arn:eds/" \o ToString(k)) ELSE None,
     Status |-> Some("ENABLED")]
StoreLists ==
    {[k \in DOMAIN arns |-> ServiceStore(k, arns[k])] :
        arns \in UNION {[1..n -> BOOLEAN] : n \in 0..MaxStores}}
ListStoresResponses ==
    [EventDataStores : {None} \cup {Some(l) : l \in {l \in StoreLists : l # <<>>}}]
        \cup {[EventDataStores |-> Some(<<>>)]}
\* GetEventDataStore responses: AdvancedEventSelectors is given by its length
StoreDetailsResponses ==
    [MultiRegionEnabled : {None, Some("true")},
     OrganizationEnabled : {None, Some("false")},
     AdvancedEventSelectors : {None, Some(0), Some(2)}]

(***************************************************************************)
(* Invocations: the handlers and the arguments they are called with.       *)
(***************************************************************************)
GetQueryStatusArgs == [fn : {"handleGetQueryStatus"}, queryId : QueryIds, region : Regions]
ListEventDataStoresArgs ==
    [fn : {"handleListEventDataStores"}, includeDetails : {None, Some(TRUE), Some(FALSE)},
     region : Regions]
LakeQueryArgs ==
    [fn : {"handleLakeQuery"}, sql : {"SELECT eventname FROM eds"},
     waitForCompletion : {None, Some(TRUE), Some(FALSE)}, region : Regions]
CallerTokens == {None, Some(""), Some("token-1")}
Requested == {None} \cup {Some(n) : n \in -1..2 \cup (PAGE_MAX - 1)..MaxRequested}
GetQueryResultsArgs ==
    [fn : {"handleGetQueryResults"}, queryId : QueryIds, maxResults : Requested,
     nextToken : CallerTokens, region : Regions]
\* the last one is a well-formed relative time that lies before every Date
StartTimes ==
    {None, Some("1 day ago"), Some(toISOString(Epoch)), Some("yesterday"),
     Some(RelativeString(FarAmount, "month", TRUE))}
EndTimes == {None, Some("now"), Some("tomorrow")}
Filters == {<<None, None>>, <<Some("Username"), None>>, <<Some("Username"), Some("alice")>>}
\* the limits the servers of this process were registered with
Limits == {LowLimit, DEFAULT_MAX_TOKEN_CALL}
\* handleLookupEvents, called as the exported function
LookupEventsArgs ==
    {[fn |-> "handleLookupEvents", startTime |-> s, endTime |-> e,
      attributeKey |-> f[1], attributeValue |-> f[2], maxResults |-> m,
      nextToken |-> t, region |-> None, now |-> c] :
        s \in StartTimes, e \in EndTimes, f \in Filters, m \in Requested,
        t \in CallerTokens, c \in Clocks}
\* the lookup_events tool: the raw arguments, and the maxTokenCall its
\* callback was registered with
LookupEventsToolArgs ==
    {[a EXCEPT !.fn = "lookup_events"] @@ [break_token_rule |-> b, maxTokenCall |-> l] :
        a \in LookupEventsArgs, b \in {None, Some(TRUE)}, l \in Limits}
Invocations ==
    LakeQueryArgs \cup GetQueryStatusArgs \cup GetQueryResultsArgs
        \cup ListEventDataStoresArgs \cup LookupEventsArgs \cup LookupEventsToolArgs

Frame == stack[Len(stack)]
Entry == stack[1]
Running(fn, at) == pc = at /\ stack # <<>> /\ Frame.fn = fn

Init ==
    /\ pc = "idle"
    /\ stack = <<>>
    /\ sent = EmptyBag
    /\ queryId = None
    /\ queryStatus = None
    /\ finalErrorMessage = None
    /\ elapsed = 0
    /\ polls = 0
    /\ slept = 0
    /\ queryTime = 0
    /\ observed = NoObserved
    /\ out = NoOut
    /\ text = None
    /\ tokenCheck = NoCheck
    /\ acquired = 0
    /\ live = 0
    /\ storeIdx = 0
    /\ storeLines = <<>>
    /\ storeRows = 0
    /\ printed = <<>>
    /\ transports = <<>>
    /\ created = 0
    /\ sessionIds = <<>>
    /\ requests = <<>>
    /\ resStatus = 0
    /\ initialized = {}
    /\ closed = {}

\* the server dispatches a call to its handler
Invoke ==
    /\ pc = "idle"
    /\ \E a \in Invocations :
        /\ stack' = <<a>>
        /\ pc' = "entry"
    /\ UNCHANGED <<sent, lakeVars, observed, out, tokenVars>>
    /\ UNCHANGED otherVars

\* an error thrown inside a handler or the callback ends the invocation:
\* nothing catches it
Throw(error) ==
    /\ pc' = "thrown"
    /\ out' = Thrown(error)

Return(lines) ==
    /\ pc' = "returned"
    /\ out' = Text(lines)

(***************************************************************************)
(* handleLakeQuery                                                         *)
(***************************************************************************)
\* line 71 with TIMED_OUT left out of the list
IsTerminalWithoutTimedOut(status) == status \in TerminalStatuses \ {"TIMED_OUT"}

\* line 71: ['FINISHED', 'FAILED', 'CANCELLED', 'TIMED_OUT'].includes(queryStatus)
IsTerminal(status) == status \in TerminalStatuses

\* line 66: the condition of the while loop
LoopCondition == elapsed < MAX_POLL_SECONDS * 1000

\* line 80 without the region
ResultsCallNoRegion(region, id) ==
    [fn |-> "handleGetQueryResults", queryId |-> id, maxResults |-> Some(50),
     nextToken |-> None, region |-> None]

\* line 80: the arguments of the call of handleGetQueryResults
ResultsCall(region, id) ==
    [fn |-> "handleGetQueryResults", queryId |-> id, maxResults |-> Some(50),
     nextToken |-> None, region |-> Some(region)]

\* lines 40-64: submit the query, then branch on waitForCompletion
LakeSubmit ==
    /\ Running("handleLakeQuery", "entry")
    /\ LET region == ResolveRegion(Frame.region)
           waitForCompletion == Coalesce(Frame.waitForCompletion, TRUE)
       IN  /\ sent' = Send(sent, StartQueryCommand(region, Frame.sql))
           /\ \/ \E e \in CollaboratorErrors :
                   /\ Throw(e)
                   /\ observed' = Failed("StartQuery")
                   /\ UNCHANGED <<queryId, queryStatus, finalErrorMessage>>
              \/ \E id \in QueryIds :
                   /\ queryId' = Some(id)
                   /\ IF ~waitForCompletion
                      THEN /\ pc' = "initial"
                           /\ UNCHANGED <<queryStatus, finalErrorMessage>>
                      ELSE /\ pc' = "loop"
                           /\ queryStatus' = Some("RUNNING")
                           /\ finalErrorMessage' = None
                   /\ UNCHANGED <<observed, out>>
    /\ UNCHANGED <<stack, elapsed, polls, slept, queryTime, tokenVars>>
    /\ UNCHANGED otherVars

\* lines 49-59: one status query, and the acknowledgement
LakeInitialStatus ==
    /\ Running("handleLakeQuery", "initial")
    /\ LET region == ResolveRegion(Frame.region)
       IN  /\ sent' = Send(sent, DescribeQueryCommand(region, queryId[1]))
           /\ \/ \E e \in CollaboratorErrors :
                   /\ Throw(e)
                   /\ observed' = Failed("DescribeQuery")
              \/ \E initialStatus \in DescribeResponses :
                   /\ observed' = [observed EXCEPT !.describe = Some(initialStatus)]
                   /\ Return(FormatSubmitted(region, queryId[1],
                                             Coalesce(initialStatus.QueryStatus, "RUNNING")))
    /\ UNCHANGED <<stack, lakeVars, tokenVars>>
    /\ UNCHANGED otherVars

\* line 66, condition false: the loop is left without another status query
LakeLoopExit ==
    /\ Running("handleLakeQuery", "loop")
    /\ ~LoopCondition
    /\ pc' = "after"
    /\ UNCHANGED <<stack, sent, lakeVars, observed, out, tokenVars>>
    /\ UNCHANGED otherVars

\* lines 66-73 with a failed status query tried again after the sleep
LakePollRetrying ==
    /\ Running("handleLakeQuery", "loop")
    /\ LoopCondition
    /\ sent' = Send(sent, DescribeQueryCommand(ResolveRegion(Frame.region), queryId[1]))
    /\ polls' = polls + 1
    /\ UNCHANGED queryTime
    /\ \/ \E e \in CollaboratorErrors :
            /\ observed' = Failed("DescribeQuery")
            /\ pc' = "sleep"
            /\ UNCHANGED <<queryStatus, finalErrorMessage>>
       \/ \E statusResponse \in DescribeResponses :
            /\ observed' = [observed EXCEPT !.describe = Some(statusResponse)]
            /\ queryStatus' = Some(Coalesce(statusResponse.QueryStatus, "UNKNOWN"))
            /\ finalErrorMessage' = statusResponse.ErrorMessage
            /\ pc' = IF IsTerminal(queryStatus'[1]) THEN "after" ELSE "sleep"
    /\ UNCHANGED <<stack, queryId, elapsed, slept, out, tokenVars>>
    /\ UNCHANGED otherVars

\* lines 66-73: one status query; a terminal status breaks out of the loop
LakePoll ==
    /\ Running("handleLakeQuery", "loop")
    /\ LoopCondition
    /\ sent' = Send(sent, DescribeQueryCommand(ResolveRegion(Frame.region), queryId[1]))
    /\ polls' = polls + 1
    /\ \E took \in QueryLatencies :
        /\ took > 0 => queryTime < MaxSlowQueries * DEFAULT_TIMEOUT
        /\ queryTime' = queryTime + took
    /\ \/ \E e \in CollaboratorErrors :
            /\ Throw(e)
            /\ observed' = Failed("DescribeQuery")
            /\ UNCHANGED <<queryStatus, finalErrorMessage>>
       \/ \E statusResponse \in DescribeResponses :
            /\ observed' = [observed EXCEPT !.describe = Some(statusResponse)]
            /\ queryStatus' = Some(Coalesce(statusResponse.QueryStatus, "UNKNOWN"))
            /\ finalErrorMessage' = statusResponse.ErrorMessage
            /\ pc' = IF IsTerminal(queryStatus'[1]) THEN "after" ELSE "sleep"
            /\ UNCHANGED out
    /\ UNCHANGED <<stack, queryId, elapsed, slept, tokenVars>>
    /\ UNCHANGED otherVars

\* lines 75-76: sleep one interval and count it
LakeSleep ==
    /\ Running("handleLakeQuery", "sleep")
    /\ slept' = slept + POLL_INTERVAL_MS
    /\ elapsed' = elapsed + POLL_INTERVAL_MS
    /\ pc' = "loop"
    /\ UNCHANGED <<stack, sent, queryId, queryStatus, finalErrorMessage, polls, queryTime,
                   observed, out, tokenVars>>
    /\ UNCHANGED otherVars

\* lines 79-88: a FINISHED query hands over to handleGetQueryResults, any
\* other status is reported as text
LakeAfter ==
    /\ Running("handleLakeQuery", "after")
    /\ LET region == ResolveRegion(Frame.region)
       IN  IF queryStatus = Some("FINISHED")
           THEN /\ stack' = Append(stack, ResultsCall(region, queryId[1]))
                /\ pc' = "entry"
                /\ UNCHANGED out
           ELSE /\ Return(FormatCompleted(region, queryId[1], queryStatus[1],
                                          finalErrorMessage))
                /\ UNCHANGED stack
    /\ UNCHANGED <<sent, lakeVars, observed, tokenVars>>
    /\ UNCHANGED otherVars

(***************************************************************************)
(* handleGetQueryStatus                                                    *)
(***************************************************************************)
\* lines 102-145: one status query, reported as text
GetQueryStatus ==
    /\ Running("handleGetQueryStatus", "entry")
    /\ LET region == ResolveRegion(Frame.region)
       IN  /\ sent' = Send(sent, DescribeQueryCommand(region, Frame.queryId))
           /\ \/ \E e \in CollaboratorErrors :
                   /\ Throw(e)
                   /\ observed' = Failed("DescribeQuery")
              \/ \E response \in DescribeResponses :
                   /\ observed' = [observed EXCEPT !.describe = Some(response)]
                   /\ Return(FormatQueryStatus(region, Frame.queryId, response))
    /\ UNCHANGED <<stack, lakeVars, tokenVars>>
    /\ UNCHANGED otherVars

(***************************************************************************)
(* handleListEventDataStores                                               *)
(***************************************************************************)
\* line 240 defaulting to false
IncludeDetailsDefaultFalse(includeDetails) == Coalesce(includeDetails, FALSE)

\* line 240: args.includeDetails ?? true
IncludeDetails(includeDetails) == Coalesce(includeDetails, TRUE)

\* lines 238-257: list the stores; none is reported at once
ListEventDataStores ==
    /\ Running("handleListEventDataStores", "entry")
    /\ LET region == ResolveRegion(Frame.region)
       IN  /\ sent' = Send(sent, ListEventDataStoresCommand(region))
           /\ \/ \E e \in CollaboratorErrors :
                   /\ Throw(e)
                   /\ observed' = Failed("ListEventDataStores")
                   /\ UNCHANGED storeVars
              \/ \E response \in ListStoresResponses :
                   LET stores == Coalesce(response.EventDataStores, <<>>)
                       header == FormatStoresHeader(region, Len(stores))
                   IN  /\ observed' = [observed EXCEPT !.stores = Some(stores)]
                       /\ IF Len(stores) = 0
                          THEN /\ Return(Append(header, NoStoresLine))
                               /\ UNCHANGED storeVars
                          ELSE /\ storeLines' = header
                               /\ storeIdx' = 0
                               /\ pc' = "store"
                               /\ UNCHANGED out
    /\ UNCHANGED <<stack, lakeVars, tokenVars, pagingVars, httpVars>>

\* lines 259-288: one round of the loop; the details of a store with an
\* ARN are fetched, and a failure of that request is caught
ListEventDataStoresStore ==
    /\ Running("handleListEventDataStores", "store")
    /\ storeIdx < Len(observed.stores[1])
    /\ LET region == ResolveRegion(Frame.region)
           store == observed.stores[1][storeIdx + 1]
           base == storeLines \o FormatStore(store, storeIdx)
       IN  IF IncludeDetails(Frame.includeDetails) /\ Truthy(store.EventDataStoreArn)
           THEN /\ sent' = Send(sent, GetEventDataStoreCommand(region,
                                                               store.EventDataStoreArn[1]))
                /\ \/ \E e \in CollaboratorErrors :
                        /\ observed' = Failed("GetEventDataStore")
                        /\ storeLines' = base \o <<UnableLine, <<>> >>
                   \/ \E details \in StoreDetailsResponses :
                        /\ storeLines' = base \o FormatStoreDetails(details) \o << <<>> >>
                        /\ UNCHANGED observed
           ELSE /\ storeLines' = Append(base, <<>>)
                /\ UNCHANGED <<sent, observed>>
    /\ storeIdx' = storeIdx + 1
    /\ UNCHANGED <<pc, stack, out, lakeVars, tokenVars, pagingVars, httpVars>>

\* lines 259 and 290-294: the loop is over
ListEventDataStoresReturn ==
    /\ Running("handleListEventDataStores", "store")
    /\ storeIdx = Len(observed.stores[1])
    /\ Return(Append(storeLines, TipLine))
    /\ UNCHANGED <<stack, sent, observed, lakeVars, tokenVars>>
    /\ UNCHANGED otherVars

(***************************************************************************)
(* handleGetQueryResults                                                   *)
(***************************************************************************)
\* the collaborator answers with any page of at most max rows
AnyPage(max, token) == ResultsResponses(max)

\* the tokens of a collaborator that serves the rows of one query in order
TokenAt(offset) == "after-" \o ToString(offset)
OffsetOf(token) ==
    IF token = None THEN 0 ELSE CHOOSE k \in 0..MaxStoreRows : TokenAt(k) = token[1]

\* the collaborator's answers to a request for at most max rows after
\* token: at least one row while rows are left, a token while more follow
StorePage(max, token) ==
    LET start == OffsetOf(token)
        left == storeRows - start
    IN  {[QueryResultRows |-> Some([k \in 1..n |-> ServiceRow(start + k)]),
          NextToken |-> IF start + n < storeRows THEN Some(TokenAt(start + n)) ELSE None] :
            n \in IF left = 0 THEN {0} ELSE 1..Min(max, left)}

\* lines 161-224: the results request and a status query are issued
\* together; either failing fails the call.  The collaborator answers the
\* results request with any page, or (paged) from the rows of the query.
GetQueryResultsFrom(paged) ==
    /\ Running("handleGetQueryResults", "entry")
    /\ LET region == ResolveRegion(Frame.region)
           maxResults == validateMaxResults(Frame.maxResults, RESULTS_DEFAULT, PAGE_MAX)
           token == QueryResultsToken(Frame.nextToken)
       IN  /\ sent' = Send(Send(sent, GetQueryResultsCommand(region, Frame.queryId,
                                                            maxResults, token)),
                           DescribeQueryCommand(region, Frame.queryId))
           /\ \/ \E e \in CollaboratorErrors, op \in {"GetQueryResults", "DescribeQuery"} :
                   /\ Throw(e)
                   /\ observed' = Failed(op)
              \/ \E resultsResponse \in (IF paged THEN StorePage(maxResults, token)
                                             ELSE AnyPage(maxResults, token)),
                    statusResponse \in ResultsStatusResponses :
                   /\ observed' = [observed EXCEPT !.describe = Some(statusResponse),
                                                   !.results = Some(resultsResponse)]
                   /\ Return(FormatQueryResults(region, Frame.queryId, resultsResponse,
                                                statusResponse))
    /\ UNCHANGED <<stack, lakeVars, tokenVars>>
    /\ UNCHANGED otherVars

GetQueryResults == GetQueryResultsFrom(FALSE)

(***************************************************************************)
(* lookup_events: the tool callback and handleLookupEvents                 *)
(***************************************************************************)
\* LookupEventsSchema: maxResults is an integer in 1..50 when present
SchemaAccepts(a) == a.maxResults = None \/ (a.maxResults[1] >= 1 /\ a.maxResults[1] <= 50)

\* the callback, lines 79-80: parse the arguments, call the handler
LookupEventsTool ==
    /\ Running("lookup_events", "entry")
    /\ IF SchemaAccepts(Frame)
       THEN /\ stack' = Append(stack, [Frame EXCEPT
                                           !.fn = "handleLookupEvents",
                                           !.break_token_rule =
                                               Some(Coalesce(Frame.break_token_rule, FALSE))])
            /\ UNCHANGED <<pc, out>>
       ELSE /\ Throw("ZodError")
            /\ UNCHANGED stack
    /\ UNCHANGED <<sent, lakeVars, observed, tokenVars>>
    /\ UNCHANGED otherVars

\* handleLookupEvents, lines 72-171
LookupEvents ==
    /\ Running("handleLookupEvents", "entry")
    /\ LET region == ResolveRegion(Frame.region)
           paging == Truthy(Frame.nextToken)
           startStr == IF paging THEN Frame.startTime
                       ELSE Some(Coalesce(Frame.startTime, "1 day ago"))
           endStr == IF paging THEN Frame.endTime
                     ELSE Some(Coalesce(Frame.endTime, "now"))
           startDt == parseTimeInput(startStr[1], Frame.now)
           endDt == parseTimeInput(endStr[1], Frame.now)
           maxResults == validateMaxResults(Frame.maxResults, EVENTS_DEFAULT, PAGE_MAX)
           attributes == IF Truthy(Frame.attributeKey) /\ Truthy(Frame.attributeValue)
                         THEN Some(<<Frame.attributeKey[1], Frame.attributeValue[1]>>)
                         ELSE None
           token == LookupEventsToken(Frame.nextToken)
       IN  IF paging /\ (~Truthy(startStr) \/ ~Truthy(endStr))
           THEN /\ Throw("Both startTime and endTime are required when using pagination")
                /\ UNCHANGED <<stack, sent, observed, text>>
           ELSE IF ~startDt.ok \/ ~endDt.ok
           THEN /\ Throw("Invalid time format")
                /\ UNCHANGED <<stack, sent, observed, text>>
           ELSE /\ sent' = Send(sent, LookupEventsCommand(region, startDt.time, endDt.time,
                                                          maxResults, attributes, token))
                /\ \/ \E e \in CollaboratorErrors :
                        /\ Throw(e)
                        /\ observed' = Failed("LookupEvents")
                        /\ UNCHANGED <<stack, text>>
                   \/ \E response \in LookupEventsResponses(maxResults) :
                        /\ observed' = [observed EXCEPT !.events = Some(response)]
                        /\ IF startDt.time = InvalidDate \/ endDt.time = InvalidDate
                           THEN \* lines 131-132: toISOString of an invalid Date
                                /\ Throw("RangeError: Invalid time value")
                                /\ UNCHANGED <<stack, text>>
                           ELSE LET lines == FormatLookupEvents(
                                                 region, startDt.time, endDt.time,
                                                 Frame.attributeKey, Frame.attributeValue,
                                                 response)
                                IN  IF Entry.fn = "lookup_events"
                                    THEN /\ stack' = <<Entry>>
                                         /\ text' = Some(lines)
                                         /\ pc' = "gate"
                                         /\ UNCHANGED out
                                    ELSE /\ Return(lines)
                                         /\ UNCHANGED <<stack, text>>
    /\ UNCHANGED <<lakeVars, tokenCheck, acquired, live>>
    /\ UNCHANGED otherVars

\* lines 82-85 without the test of tokenCheck.allowed
GateTextUnchecked(check, lines) == lines

\* lines 82-85: the error of a refused check, or the handler's text
GateText(check, lines) == IF ~check.allowed THEN <<check.error[1]>> ELSE lines

\* the callback, lines 81-85: the token check decides what is returned
LookupEventsGate ==
    /\ Running("lookup_events", "gate")
    /\ LET check == checkTokenLimit(text[1], Frame.maxTokenCall,
                                    Coalesce(Frame.break_token_rule, FALSE))
       IN  /\ acquired' = acquired + check.acquired
           /\ live' = live + check.acquired - check.freed
           /\ IF check.threw
              THEN /\ Throw("tiktoken: the text contains a disallowed special token")
                   /\ UNCHANGED tokenCheck
              ELSE /\ tokenCheck' = [kind |-> "checked", allowed |-> check.allowed,
                                     tokens |-> check.tokens, error |-> check.error]
                   /\ Return(GateText(check, text[1]))
    /\ UNCHANGED <<stack, sent, lakeVars, observed, text>>
    /\ UNCHANGED otherVars

\* the invocation has ended; the server is ready for the next call
Done ==
    /\ pc \in {"returned", "thrown"}
    /\ pc' = "idle"
    /\ stack' = <<>>
    /\ sent' = EmptyBag
    /\ queryId' = None
    /\ queryStatus' = None
    /\ finalErrorMessage' = None
    /\ elapsed' = 0
    /\ polls' = 0
    /\ slept' = 0
    /\ queryTime' = 0
    /\ observed' = NoObserved
    /\ out' = NoOut
    /\ text' = None
    /\ tokenCheck' = NoCheck
    /\ acquired' = 0
    /\ UNCHANGED live
    /\ storeIdx' = 0
    /\ storeLines' = <<>>
    /\ UNCHANGED <<pagingVars, httpVars>>

Next ==
    \/ Invoke
    \/ LakeSubmit
    \/ LakeInitialStatus
    \/ LakeLoopExit
    \/ LakePoll
    \/ LakeSleep
    \/ LakeAfter
    \/ GetQueryStatus
    \/ GetQueryResults
    \/ ListEventDataStores
    \/ ListEventDataStoresStore
    \/ ListEventDataStoresReturn
    \/ LookupEventsTool
    \/ LookupEvents
    \/ LookupEventsGate
    \/ Done

Spec == Init /\ [][Next]_vars

(***************************************************************************)
(* A sequence of get_query_results calls over one finished query: the      *)
(* collaborator holds the rows ServiceRow(1) .. ServiceRow(storeRows) and  *)
(* serves them in that order; the caller reads each response and calls     *)
(* again with the nextToken it prints.                                     *)
(***************************************************************************)
\* the token the collaborator hands out after it has served offset rows
\* what the caller reads in a response: the token of line 221, and the
\* values of the cells of lines 208-211
PrintedToken(response) ==
    IF \E k \in 1..Len(response) : Len(response[k]) = 2 /\ response[k][1] = "nextToken:"
    THEN Some(response[CHOOSE k \in 1..Len(response) :
                           Len(response[k]) = 2 /\ response[k][1] = "nextToken:"][2])
    ELSE None
IsCellLine(line) == Len(line) = 3 /\ line[2] = ":"
PrintedRows(response) ==
    LET cells == SelectSeq(response, IsCellLine)
    IN  [k \in 1..Len(cells) |-> cells[k][3]]

\* the first call of a sequence: no token
PagingStart ==
    /\ pc = "idle"
    /\ \E n \in 0..MaxStoreRows, a \in GetQueryResultsArgs :
        /\ a.nextToken = None
        /\ storeRows' = n
        /\ stack' = <<a>>
    /\ printed' = <<>>
    /\ pc' = "entry"
    /\ UNCHANGED <<sent, lakeVars, observed, out, tokenVars, storeVars, httpVars>>

\* handleGetQueryResults, answered from the rows of the query
PagedQueryResults == GetQueryResultsFrom(TRUE)

\* the caller read a response that prints a nextToken: it calls again with
\* that token and the same queryId
PagingFollowUp ==
    /\ pc = "returned"
    /\ PrintedToken(out.text) # None
    /\ printed' = printed \o PrintedRows(out.text)
    /\ \E m \in Requested :
        stack' = <<[Frame EXCEPT !.nextToken = PrintedToken(out.text), !.maxResults = m]>>
    /\ pc' = "entry"
    /\ sent' = EmptyBag
    /\ observed' = NoObserved
    /\ out' = NoOut
    /\ UNCHANGED <<lakeVars, tokenVars, storeRows, storeVars, httpVars>>

\* the sequence is over: the last response printed no nextToken, or a call
\* failed
PagingEnd ==
    /\ \/ pc = "returned" /\ PrintedToken(out.text) = None
       \/ pc = "thrown"
    /\ pc' = "idle"
    /\ stack' = <<>>
    /\ sent' = EmptyBag
    /\ observed' = NoObserved
    /\ out' = NoOut
    /\ storeRows' = 0
    /\ printed' = <<>>
    /\ UNCHANGED <<lakeVars, tokenVars, storeVars, httpVars>>

PagingNext ==
    \/ PagingStart
    \/ PagedQueryResults
    \/ PagingFollowUp
    \/ PagingEnd

PagingSpec == Init /\ [][PagingNext]_vars

(***************************************************************************)
(* lookup_events paged by its hint: a caller reads the nextToken, the      *)
(* startTime and the endTime a response prints (lines 159-168) and calls   *)
(* again with these three, at any later reading of the clock.  The         *)
(* requests of the whole sequence are kept in sent.                        *)
(***************************************************************************)
MaxFollowUps == 2

\* the second word of the hint line that starts with label
PrintedTime(response, label) ==
    IF \E k \in 1..Len(response) : Len(response[k]) = 3 /\ response[k][1] = label
    THEN Some(response[CHOOSE k \in 1..Len(response) :
                           Len(response[k]) = 3 /\ response[k][1] = label][2])
    ELSE None
HasHint(response) ==
    /\ PrintedToken(response) # None
    /\ PrintedTime(response, "startTime:") # None
    /\ PrintedTime(response, "endTime:") # None
PrintedHint(response) ==
    [nextToken |-> PrintedToken(response),
     startTime |-> PrintedTime(response, "startTime:"),
     endTime |-> PrintedTime(response, "endTime:")]

\* the first call of a sequence: no token, any times
HintStart ==
    /\ pc = "idle"
    /\ \E a \in LookupEventsArgs \cup LookupEventsToolArgs :
        /\ ~ Truthy(a.nextToken)
        /\ stack' = <<a>>
    /\ printed' = <<>>
    /\ pc' = "entry"
    /\ UNCHANGED <<sent, lakeVars, observed, out, tokenVars, storeRows, storeVars, httpVars>>

\* the caller read a response that prints the hint: it calls again with the
\* printed nextToken, startTime and endTime, its other arguments as before
HintFollowUp ==
    /\ pc = "returned"
    /\ out.kind = "text"
    /\ HasHint(out.text)
    /\ Len(printed) < MaxFollowUps
    /\ printed' = Append(printed, PrintedHint(out.text))
    /\ \E c \in Clocks :
        stack' = <<[Entry EXCEPT !.nextToken = PrintedToken(out.text),
                                 !.startTime = PrintedTime(out.text, "startTime:"),
                                 !.endTime = PrintedTime(out.text, "endTime:"),
                                 !.now = c]>>
    /\ pc' = "entry"
    /\ observed' = NoObserved
    /\ out' = NoOut
    /\ text' = None
    /\ tokenCheck' = NoCheck
    /\ acquired' = 0
    /\ UNCHANGED <<sent, lakeVars, live, storeRows, storeVars, httpVars>>

\* the sequence is over
HintEnd ==
    /\ pc \in {"returned", "thrown"}
    /\ pc' = "idle"
    /\ stack' = <<>>
    /\ sent' = EmptyBag
    /\ observed' = NoObserved
    /\ out' = NoOut
    /\ text' = None
    /\ tokenCheck' = NoCheck
    /\ acquired' = 0
    /\ printed' = <<>>
    /\ UNCHANGED <<lakeVars, live, storeRows, storeVars, httpVars>>

HintNext ==
    \/ HintStart
    \/ LookupEventsTool
    \/ LookupEvents
    \/ LookupEventsGate
    \/ HintFollowUp
    \/ HintEnd

HintSpec == Init /\ [][HintNext]_vars

(***************************************************************************)
(* parseTimeInput called on its own: on every relative string of the       *)
(* model, on "now", on an absolute instant and on a string it cannot read. *)
(***************************************************************************)
RelativeStrings == {RelativeString(n, u, pl) : n \in Amounts, u \in Units, pl \in BOOLEAN}
ParseTimeArgs ==
    [fn : {"parseTimeInput"},
     input : RelativeStrings \cup {"now", toISOString(Epoch), "yesterday"},
     now : Clocks]

InvokeParseTime ==
    /\ pc = "idle"
    /\ \E a \in ParseTimeArgs : stack' = <<a>>
    /\ pc' = "entry"
    /\ UNCHANGED <<sent, lakeVars, observed, out, tokenVars>>
    /\ UNCHANGED otherVars

\* lines 386-415: the Date is returned, valid or not, or the error thrown
ParseTime ==
    /\ Running("parseTimeInput", "entry")
    /\ LET parsed == parseTimeInput(Frame.input, Frame.now)
       IN  IF parsed.ok
           THEN /\ pc' = "returned"
                /\ out' = [kind |-> "date", time |-> parsed.time]
           ELSE Throw("Invalid time format")
    /\ UNCHANGED <<stack, sent, lakeVars, observed, tokenVars>>
    /\ UNCHANGED otherVars

TimeNext ==
    \/ InvokeParseTime
    \/ ParseTime
    \/ Done

TimeSpec == Init /\ [][TimeNext]_vars

(***************************************************************************)
(* HTTP mode of main (index.ts, lines 59-142): the transports map, the     *)
(* POST /mcp and GET /mcp routes and the two callbacks each new transport  *)
(* is constructed with.  A request is handled in steps, one per await, so  *)
(* that requests interleave as they do on the event loop.  The transport   *)
(* (StreamableHTTPServerTransport) is a collaborator: it decides whether   *)
(* a request initializes a session, and when a session is closed.          *)
(***************************************************************************)
MaxInFlight == 2      \* requests handled at the same time
MaxSessions == 2      \* session ids the generator hands out
MaxTransports == 2    \* transports created

\* the values an mcp-session-id header carries; sessionIdGenerator hands them
\* out in order, so an id not handed out yet is an id the map does not know
SessionIds == {"session-" \o ToString(k) : k \in 1..MaxSessions}
randomUUID == "session-" \o ToString(Cardinality(initialized) + 1)

\* Map.prototype.set and Map.prototype.delete
MapSet(map, key, value) ==
    [k \in DOMAIN map \cup {key} |-> IF k = key THEN value ELSE map[k]]
MapDeleteNothing(map, key) == map
MapDelete(map, key) == [k \in DOMAIN map \ {key} |-> map[k]]

HttpRequests ==
    [method : {"POST", "GET"}, sessionId : {None} \cup {Some(s) : s \in SessionIds},
     pc : {"received"}, transport : {0}]

\* express dispatches a request to its route
HttpReceive ==
    /\ Len(requests) < MaxInFlight
    /\ \E req \in HttpRequests : requests' = Append(requests, req)
    /\ UNCHANGED <<transports, created, sessionIds, initialized, closed, resStatus>>
    /\ UNCHANGED handlerVars

KnownSession(req) == req.sessionId # None /\ req.sessionId[1] \in DOMAIN transports

Without(r) ==
    [k \in 1..(Len(requests) - 1) |-> IF k < r THEN requests[k] ELSE requests[k + 1]]

\* the response to request r is written, which ends the request
Answer(r, status) ==
    /\ requests' = Without(r)
    /\ resStatus' = status

\* lines 73-92: the session's transport, or a new transport with its callbacks
PostMcp(r) ==
    /\ requests[r].method = "POST"
    /\ requests[r].pc = "received"
    /\ IF KnownSession(requests[r])
       THEN /\ requests' = [requests EXCEPT ![r].pc = "handle",
                                ![r].transport = transports[requests[r].sessionId[1]]]
            /\ UNCHANGED <<created, sessionIds>>
       ELSE /\ created < MaxTransports
            /\ created' = created + 1
            /\ sessionIds' = Append(sessionIds, None)
            /\ requests' = [requests EXCEPT ![r].pc = "connect",
                                ![r].transport = created + 1]
    /\ UNCHANGED <<transports, initialized, closed, resStatus>>
    /\ UNCHANGED handlerVars

\* lines 94-101: the server is created and connected, or the catch answers 500
PostConnect(r) ==
    /\ requests[r].pc = "connect"
    /\ \/ /\ requests' = [requests EXCEPT ![r].pc = "handle"]
          /\ UNCHANGED resStatus
       \/ Answer(r, 500)
    /\ UNCHANGED <<transports, created, sessionIds, initialized, closed>>
    /\ UNCHANGED handlerVars

\* lines 117-131: 400 without a known session, else the session's transport
GetMcp(r) ==
    /\ requests[r].method = "GET"
    /\ requests[r].pc = "received"
    /\ IF ~ KnownSession(requests[r])
       THEN Answer(r, 400)
       ELSE /\ requests' = [requests EXCEPT ![r].pc = "handle",
                                ![r].transport = transports[requests[r].sessionId[1]]]
            /\ UNCHANGED resStatus
    /\ UNCHANGED <<transports, created, sessionIds, initialized, closed>>
    /\ UNCHANGED handlerVars

\* lines 82-85, called by a transport without a session when the POST it
\* handles is an initialize request: the transport takes an id from
\* sessionIdGenerator, keeps it, calls the callback and answers
onsessioninitialized(r) ==
    /\ requests[r].pc = "handle"
    /\ requests[r].method = "POST"
    /\ sessionIds[requests[r].transport] = None
    /\ Cardinality(initialized) < MaxSessions
    /\ transports' = MapSet(transports, randomUUID, requests[r].transport)
    /\ initialized' = initialized \cup {randomUUID}
    /\ sessionIds' = [sessionIds EXCEPT ![requests[r].transport] = Some(randomUUID)]
    /\ Answer(r, 200)
    /\ UNCHANGED <<created, closed>>
    /\ UNCHANGED handlerVars

\* lines 104 and 131: transport.handleRequest answers by itself (200, or
\* the transport's own 400), or throws and the catch answers 500 (105-114,
\* 132-141)
HandleRequest(r) ==
    /\ requests[r].pc = "handle"
    /\ \E status \in {200, 400, 500} : Answer(r, status)
    /\ UNCHANGED <<transports, created, sessionIds, initialized, closed>>
    /\ UNCHANGED handlerVars

\* lines 86-89, called by a transport that terminates its session
onsessionclosed(t) ==
    /\ sessionIds[t] # None
    /\ sessionIds[t][1] \notin closed
    /\ transports' = MapDelete(transports, sessionIds[t][1])
    /\ closed' = closed \cup {sessionIds[t][1]}
    /\ UNCHANGED <<created, sessionIds, requests, initialized, resStatus>>
    /\ UNCHANGED handlerVars

HttpNext ==
    \/ HttpReceive
    \/ \E r \in DOMAIN requests : PostMcp(r)
    \/ \E r \in DOMAIN requests : PostConnect(r)
    \/ \E r \in DOMAIN requests : GetMcp(r)
    \/ \E r \in DOMAIN requests : onsessioninitialized(r)
    \/ \E r \in DOMAIN requests : HandleRequest(r)
    \/ \E t \in DOMAIN sessionIds : onsessionclosed(t)

HttpSpec == Init /\ [][HttpNext]_vars

(***************************************************************************)
(* Properties.                                                             *)
(***************************************************************************)
\* the running invocation is handleLakeQuery, waiting for completion or not
InLakeQuery == stack # <<>> /\ Entry.fn = "handleLakeQuery"
InLakeSync == InLakeQuery /\ Coalesce(Entry.waitForCompletion, TRUE)
InLakeAsync == InLakeQuery /\ ~Coalesce(Entry.waitForCompletion, TRUE)
\* the status the collaborator reported in its last answer to a status query
ReportedStatus == observed.describe[1].QueryStatus
ReportedTerminal == ReportedStatus # None /\ ReportedStatus[1] \in TerminalStatuses
LakeRegion == ResolveRegion(Entry.region)

\* C1: with waitForCompletion true or omitted, the loop sleeps 2000 ms after
\* every status query but a terminal one, goes on only after a non-terminal
\* (or missing) status, is left only at a terminal status or after the 150th
\* status query, and never issues more than 150 status queries.
C1_PollingLoop ==
    InLakeSync =>
        /\ polls <= 150
        /\ pc = "loop" => /\ slept = 2000 * polls
                          /\ polls > 0 => ~ReportedTerminal
        /\ pc = "sleep" => /\ slept = 2000 * (polls - 1)
                           /\ ~ReportedTerminal
        /\ pc = "after" => \/ ReportedTerminal /\ slept = 2000 * (polls - 1)
                           \/ ~ReportedTerminal /\ polls = 150 /\ slept = 2000 * 150

\* C1 witness: the loop was left after 150 status queries, none terminal
C1_Witness == InLakeSync /\ pc = "after" /\ polls = 150 /\ ~ReportedTerminal

\* C2: measured from the first status query, counting the sleeps and the
\* time the status queries take, the loop is not iterating any more once
\* 300000 ms have passed.
C2_WallClockBound ==
    (InLakeSync /\ (pc = "sleep" \/ (pc = "loop" /\ LoopCondition)))
        => slept + queryTime < 300000

\* C3: handleLakeQuery issues a results request only after the loop observed
\* FINISHED, and then exactly one: for the query id of the submit and the
\* region of the call, page size 50, no continuation token; the text it
\* returns then is the formatted page of that request's answer.
C3_FinishedDelegates ==
    InLakeQuery =>
        /\ Count(sent, "GetQueryResults") <= 1
        /\ Count(sent, "GetQueryResults") = 1 =>
              /\ InLakeSync /\ queryStatus = Some("FINISHED")
              /\ BagIn(GetQueryResultsCommand(LakeRegion, queryId[1], 50, None), sent)
        /\ (pc \in {"returned", "thrown"} /\ queryStatus = Some("FINISHED")) =>
              Count(sent, "GetQueryResults") = 1
        /\ (pc = "returned" /\ queryStatus = Some("FINISHED")) =>
              out = Text(FormatQueryResults(LakeRegion, queryId[1], observed.results[1],
                                            observed.describe[1]))

\* C3 witness: a FINISHED query whose first page was returned
C3_Witness ==
    /\ InLakeSync /\ pc = "returned" /\ queryStatus = Some("FINISHED")
    /\ Entry.region # None /\ polls > 1
    /\ observed.results[1].QueryResultRows # None
    /\ Len(observed.results[1].QueryResultRows[1]) = 2

\* C4: when the loop ends with a status other than FINISHED, the next step
\* of the invocation returns a text (it throws nothing) whose first line
\* carries the last reported status, whose second line carries the query
\* id, and whose third line is the last reported error message if there is
\* one.
C4_NonSuccessIsText ==
    [][(InLakeSync /\ pc = "after" /\ queryStatus # Some("FINISHED")) =>
          /\ pc' = "returned"
          /\ out'.kind = "text"
          /\ out'.text[1] = <<"Query completed with status:",
                              Coalesce(ReportedStatus, "UNKNOWN"),
                              "(region:", LakeRegion, ")">>
          /\ out'.text[2] = <<"Query ID:", queryId[1]>>
          /\ IF Truthy(observed.describe[1].ErrorMessage)
             THEN /\ Len(out'.text) = 3
                  /\ out'.text[3] = <<"Error:", observed.describe[1].ErrorMessage[1]>>
             ELSE Len(out'.text) = 2]_vars

\* C4 witness: a FAILED query reported with its error message
C4_Witness ==
    /\ InLakeSync /\ pc = "returned" /\ queryStatus = Some("FAILED")
    /\ Truthy(finalErrorMessage) /\ Len(out.text) = 3

\* C5 as stated: the acknowledgement of waitForCompletion=false carries the
\* query id and a status that is not terminal, and nothing slept or polled.
C5_AckNeverTerminal ==
    (InLakeAsync /\ pc = "returned") =>
        /\ slept = 0 /\ polls = 0
        /\ out.text[2] = <<"Query ID:", queryId[1]>>
        /\ out.text[3][2] \notin TerminalStatuses

\* C5 amended: the acknowledgement carries the query id and the status the
\* one status query reported (RUNNING when the answer has none), terminal
\* or not; nothing slept, the loop was not entered.
C5_AckReportsStatus ==
    (InLakeAsync /\ pc = "returned") =>
        /\ slept = 0 /\ polls = 0
        /\ Count(sent, "DescribeQuery") = 1
        /\ out.kind = "text"
        /\ out.text[2] = <<"Query ID:", queryId[1]>>
        /\ out.text[3] = <<"Status:", Coalesce(ReportedStatus, "RUNNING")>>

\* C5 witness: an acknowledgement of a query the service already finished
C5_Witness ==
    /\ InLakeAsync /\ pc = "returned" /\ queryId = Some("q-2")
    /\ ReportedStatus = Some("FINISHED")

\* the running invocation is a call of the lookup_events tool
InLookupTool == stack # <<>> /\ Entry.fn = "lookup_events"
Bypass == Coalesce(Entry.break_token_rule, FALSE)
\* the token count of the handler's text: the number of its words
Measured == Len(Words(text[1]))

C8_BypassSkipsMeasuring ==
    (InLookupTool /\ pc \in {"returned", "thrown"} /\ text # None /\ Bypass) =>
        /\ pc = "returned"
        /\ tokenCheck.kind = "checked"
        /\ tokenCheck.allowed = TRUE
        /\ tokenCheck.tokens = 0
        /\ tokenCheck.error = None
        /\ acquired = 0

\* C8 witness: a text over the limit, which the tokenizer cannot even
\* encode, passed the check by the bypass
C8_Witness ==
    /\ InLookupTool /\ pc = "returned" /\ Bypass /\ tokenCheck.allowed
    /\ Measured > Entry.maxTokenCall /\ CannotEncode(text[1])

\* C9: no tokenizer instance is left unfreed, whatever calls were made and
\* however they ended.
C9_NoLiveEncoder == live = 0

\* C9 witness: a call in which the encoder was acquired and encode threw
C9_Witness ==
    /\ InLookupTool /\ pc = "thrown" /\ text # None
    /\ CannotEncode(text[1]) /\ acquired = 1

\* C10: the page size of every results or lookup request is the default
\* (50 for results, 10 for events) when maxResults is omitted and
\* max(1, min(50, requested)) otherwise, so it lies in 1..50.
C10_PageSizeClamped ==
    \A c \in BagToSet(sent) :
        c.op \in {"GetQueryResults", "LookupEvents"} =>
            LET size == IF c.op = "GetQueryResults" THEN c.MaxQueryResults ELSE c.MaxResults
                def == IF c.op = "GetQueryResults" THEN 50 ELSE 10
                requested == Frame.maxResults
            IN  /\ size \in 1..50
                /\ requested = None => size = def
                /\ requested # None =>
                      size = (IF requested[1] < 1 THEN 1
                              ELSE IF requested[1] > 50 THEN 50 ELSE requested[1])

\* C10 witness: an event lookup asked for more than 50 events
C10_Witness ==
    \E c \in BagToSet(sent) :
        /\ c.op = "LookupEvents"
        /\ Frame.maxResults # None /\ Frame.maxResults[1] > 50
        /\ c.MaxResults = 50

\* the errors that reject a lookup for its input: the schema's, the
\* handler's two, and the one toISOString raises for an invalid Date
InputErrors ==
    {"ZodError", "Both startTime and endTime are required when using pagination",
     "Invalid time format", "RangeError: Invalid time value"}
\* the page size asked for lies outside 1..50
OutOfRange == Entry.maxResults # None /\ Entry.maxResults[1] \notin 1..50

\* C11: a lookup_events call whose maxResults lies outside 1..50 is not
\* rejected for it, and when it returns, the one request it issued carries
\* the page size clamped into 1..50.
C11_OutOfRangeIsClamped ==
    (InLookupTool /\ OutOfRange /\ pc \in {"returned", "thrown"}) =>
        /\ out # Thrown("ZodError")
        /\ pc = "returned" =>
              \E c \in BagToSet(sent) :
                  /\ c.op = "LookupEvents"
                  /\ c.MaxResults = (IF Entry.maxResults[1] < 1 THEN 1 ELSE 50)

\* C12: a lookup_events call that ends rejected for its input (a schema
\* violation, a nextToken without both times, a time that yields no date)
\* has issued no collaborator request.
C12_RejectedBeforeRequest ==
    (InLookupTool /\ pc = "thrown" /\ out.error \in InputErrors) =>
        Count(sent, "LookupEvents") = 0

\* the requests that can carry a continuation token
PagedRequests == {c \in BagToSet(sent) : c.op \in {"GetQueryResults", "LookupEvents"}}
\* the request carries the query-defining parameters of the running call
CarriesParameters(c) ==
    IF c.op = "GetQueryResults"
    THEN c.QueryId = Frame.queryId
    ELSE /\ c.StartTime = parseTimeInput(Frame.startTime[1], Frame.now).time
         /\ c.EndTime = parseTimeInput(Frame.endTime[1], Frame.now).time

\* C13 as stated: whenever the caller supplies a nextToken, the results or
\* lookup request carries exactly that token, with the query id or the
\* parsed times of the same call.
C13_TokenAlwaysPassed ==
    \A c \in PagedRequests :
        Frame.nextToken # None => (c.NextToken = Frame.nextToken /\ CarriesParameters(c))

\* C13 amended: a non-empty nextToken is carried by the request unmodified,
\* with the query id or the parsed times of the same call; an empty or
\* omitted nextToken puts no token in the request.
C13_NonEmptyTokenPassed ==
    \A c \in PagedRequests :
        IF Truthy(Frame.nextToken)
        THEN c.NextToken = Frame.nextToken /\ CarriesParameters(c)
        ELSE c.NextToken = None

\* C13 witness: a lookup for the next page went out with the caller's token
\* and a start time given as an absolute instant
C13_Witness ==
    \E c \in PagedRequests :
        /\ c.op = "LookupEvents" /\ c.NextToken = Some("token-1")
        /\ Frame.startTime = Some(toISOString(Epoch)) /\ c.StartTime = Epoch

\* the values of the first n rows of a query, in the collaborator's order
FirstRows(n) == [k \in 1..n |-> ToString(k)]

\* C14: in a sequence of calls over one query, each passing the nextToken
\* the previous response printed, the rows printed so far are the first
\* rows of the query, in order, each once; a response that prints a
\* nextToken printed at least one row and rows are left, and a response
\* that prints none has completed the rows: the sequence ends after at
\* most as many calls as the query has rows (one call for an empty query).
C14_ConsecutivePages ==
    pc = "returned" =>
        LET sofar == printed \o PrintedRows(out.text)
        IN  /\ sofar = FirstRows(Len(sofar))
            /\ Len(sofar) <= storeRows
            /\ IF PrintedToken(out.text) # None
               THEN PrintedRows(out.text) # <<>> /\ Len(sofar) < storeRows
               ELSE Len(sofar) = storeRows

\* C14 witness: the third page of one row each completed a query of three
C14_Witness ==
    /\ pc = "returned" /\ storeRows = 3 /\ Len(printed) = 2
    /\ Frame.nextToken # None /\ PrintedRows(out.text) = <<"3">>
    /\ PrintedToken(out.text) = None

\* C15: an invocation during which a collaborator request failed never
\* ends as a normal result: it ends as a failure carrying the
\* collaborator's error.
C15_NoErrorSwallowed ==
    (observed.failed # None /\ pc \in {"returned", "thrown"}) =>
        (pc = "thrown" /\ out.error \in CollaboratorErrors)

\* C16: a lookup_events call during which the collaborator raised an error
\* ends with the callback returning a text, not with the error thrown out
\* of the callback.
C16_ErrorsBecomeText ==
    (InLookupTool /\ observed.failed # None /\ pc \in {"returned", "thrown"}) =>
        (pc = "returned" /\ out.kind = "text")

\* C17: once a request of handleLakeQuery has failed, the invocation has
\* ended with that failure, having submitted once; after a failed submit no
\* status query and no results request was issued, after a failed status
\* query of the loop or of the acknowledgement that query was the last
\* request, and the only step left ends the invocation without a request.
C17_NoRetry ==
    [][(InLakeQuery /\ observed.failed # None) =>
          /\ pc = "thrown" /\ out.kind = "error" /\ out.error \in CollaboratorErrors
          /\ Count(sent, "StartQuery") = 1
          /\ observed.failed = Some("StartQuery") =>
                (Count(sent, "DescribeQuery") = 0 /\ Count(sent, "GetQueryResults") = 0)
          /\ (observed.failed = Some("DescribeQuery") /\ Len(stack) = 1) =>
                /\ Count(sent, "GetQueryResults") = 0
                /\ Count(sent, "DescribeQuery") = (IF InLakeSync THEN polls ELSE 1)
          /\ sent' = EmptyBag /\ pc' = "idle"]_vars

\* C17 witness: the third status query of the loop failed
C17_Witness ==
    /\ InLakeSync /\ pc = "thrown" /\ Len(stack) = 1 /\ polls = 3
    /\ observed.failed = Some("DescribeQuery")

\* the running invocation is handleListEventDataStores
InListStores == stack # <<>> /\ Entry.fn = "handleListEventDataStores"
\* how many of the first n listed stores have an ARN
StoresWithArn(n) ==
    Cardinality({k \in 1..n : Truthy(observed.stores[1][k].EventDataStoreArn)})
\* the lines of a text that report the details of a store, or their absence
DetailLines(response) ==
    {k \in 1..Len(response) :
        /\ response[k] # <<>>
        /\ \/ response[k][1] \in {"Multi-region:", "Org-enabled:", "Event selectors:"}
           \/ response[k] = UnableLine}

\* C19: with includeDetails false, handleListEventDataStores issues no
\* detail request and neither collects nor returns a detail line; with
\* includeDetails omitted or true, it has issued, after each round of the
\* loop and when it returns, one detail request for each store with an ARN
\* it has gone through, and none for the others.
C19_DetailsOnlyWhenAsked ==
    (InListStores /\ observed.stores # None) =>
        IF Entry.includeDetails = Some(FALSE)
        THEN /\ Count(sent, "GetEventDataStore") = 0
             /\ DetailLines(storeLines) = {}
             /\ pc = "returned" => DetailLines(out.text) = {}
        ELSE /\ pc = "store" => Count(sent, "GetEventDataStore") = StoresWithArn(storeIdx)
             /\ pc = "returned" =>
                   Count(sent, "GetEventDataStore") = StoresWithArn(Len(observed.stores[1]))

\* C19 witness: includeDetails omitted, two stores listed, one of them
\* with an ARN, and its details are in the text
C19_Witness ==
    /\ InListStores /\ pc = "returned" /\ Entry.includeDetails = None
    /\ Len(observed.stores[1]) = 2 /\ StoresWithArn(2) = 1
    /\ Count(sent, "GetEventDataStore") = 1
    /\ \E k \in DetailLines(out.text) : out.text[k][1] = "Multi-region:"

\* the durations of the units: 1000 ms, 60 s, 3600 s, 86400 s, 7 days and
\* 30 days, as <<days, ms>>
UnitDuration(unit) ==
    CASE unit = "second" -> <<0, 1000>>
      [] unit = "minute" -> <<0, 60000>>
      [] unit = "hour" -> <<0, 3600000>>
      [] unit = "day" -> <<1, 0>>
      [] unit = "week" -> <<7, 0>>
      [] unit = "month" -> <<30, 0>>
\* parseTimeInput has returned a Date for a relative string
ParsedRelative(n, u) ==
    /\ Running("parseTimeInput", "returned")
    /\ \E pl \in BOOLEAN : Frame.input = RelativeString(n, u, pl)

\* C18: for every amount n and each of the six units, singular or plural,
\* parseTimeInput("<n> <unit> ago") returns the instant now - n * the
\* unit's duration.
C18_RelativeExact ==
    \A n \in Amounts, u \in Units :
        ParsedRelative(n, u) =>
            out = [kind |-> "date", time |-> Minus(Frame.now, Scale(n, UnitDuration(u)))]

\* C18 restricted to the instants a Date can hold: none earlier than
\* MAX_TIME_DAYS days before the epoch
RelativeExactInRange ==
    \A n \in Amounts, u \in Units :
        LET instant == Minus(Frame.now, Scale(n, UnitDuration(u)))
        IN  (ParsedRelative(n, u) /\ instant[1] >= -MAX_TIME_DAYS) =>
                out = [kind |-> "date", time |-> instant]

(***************************************************************************)
(* C20: in HTTP mode, whatever POST /mcp requests, GET /mcp requests,      *)
(* session-initialized callbacks and session-closed callbacks have         *)
(* happened, the transports map holds exactly the ids of the sessions      *)
(* that were initialized and not yet closed, each mapped to the transport  *)
(* that owns the session; a POST whose session id is in the map takes that *)
(* session's transport and creates no transport; a GET whose session id is *)
(* missing or not in the map is answered 400 and leaves the map unchanged. *)
(***************************************************************************)
MapHoldsOpenSessions ==
    /\ DOMAIN transports = initialized \ closed
    /\ \A s \in DOMAIN transports : sessionIds[transports[s]] = Some(s)

\* the step a route takes on request r, which it has just received
Routed(r, method) ==
    /\ r \in DOMAIN requests
    /\ requests[r].method = method
    /\ requests[r].pc = "received"
    /\ \/ requests' = Without(r)
       \/ /\ Len(requests') = Len(requests)
          /\ requests'[r].pc # "received"

PostReusesTransport ==
    \A r \in 1..MaxInFlight :
        (Routed(r, "POST") /\ KnownSession(requests[r])) =>
            /\ requests' = [requests EXCEPT ![r].pc = "handle",
                                ![r].transport = transports[requests[r].sessionId[1]]]
            /\ created' = created
            /\ sessionIds' = sessionIds

GetWithoutSessionIs400 ==
    \A r \in 1..MaxInFlight :
        (Routed(r, "GET") /\ ~ KnownSession(requests[r])) =>
            /\ requests' = Without(r)
            /\ resStatus' = 400
            /\ transports' = transports

C20_TransportsMap ==
    /\ [] MapHoldsOpenSessions
    /\ [][PostReusesTransport]_vars
    /\ [][GetWithoutSessionIs400]_vars

\* two sessions were initialized and one of them closed; a GET has just been
\* answered 400 while a POST that took the open session's transport is in
\* flight
C20_Witness ==
    /\ Cardinality(initialized) = 2
    /\ Cardinality(closed) = 1
    /\ Cardinality(DOMAIN transports) = 1
    /\ resStatus = 400
    /\ \E r \in DOMAIN requests :
           /\ requests[r].method = "POST"
           /\ requests[r].pc = "handle"
           /\ requests[r].sessionId # None
           /\ requests[r].sessionId[1] \in DOMAIN transports
           /\ requests[r].transport = transports[requests[r].sessionId[1]]

(***************************************************************************)
(* C21: whenever a lookup_events response prints a pagination hint, the    *)
(* startTime and endTime of the hint denote the instants that were sent    *)
(* to the collaborator for that page; a follow-up call that passes the     *)
(* printed nextToken, startTime and endTime sends a request, and every     *)
(* request of the sequence carries the StartTime and EndTime of the first, *)
(* also when the first call gave relative or default times and the clock   *)
(* has moved since.                                                        *)
(***************************************************************************)
HintDenotes(label, instant) ==
    LET shown == PrintedTime(out.text, label)
    IN  shown # None /\ ParsesAsDate(shown[1]) /\ DateOf(shown[1]) = instant

C21_HintTimesRoundTrip ==
    /\ (pc = "returned" /\ out.kind = "text" /\ HasHint(out.text)) =>
           \A c \in BagToSet(sent) :
               /\ HintDenotes("startTime:", c.StartTime)
               /\ HintDenotes("endTime:", c.EndTime)
    /\ (Len(printed) >= 1 /\ pc \in {"gate", "returned", "thrown"}) =>
           BagCardinality(sent) = Len(printed) + 1
    /\ \A c1, c2 \in BagToSet(sent) :
           c1.StartTime = c2.StartTime /\ c1.EndTime = c2.EndTime

\* a follow-up made at midnight has returned a hint again; its request and
\* the first one carry the day before 1500 ms past midnight and 1500 ms
\* past midnight, which only "1 day ago" and "now" read at that time give
C21_Witness ==
    /\ pc = "returned"
    /\ out.kind = "text"
    /\ HasHint(out.text)
    /\ Len(printed) = 1
    /\ Frame.now = <<NowDay, 0>>
    /\ BagCardinality(sent) = 2
    /\ \A c \in BagToSet(sent) :
           /\ c.StartTime = <<NowDay - 1, 1500>>
           /\ c.EndTime = <<NowDay, 1500>>
    /\ \E c \in BagToSet(sent) : c.NextToken = None
    /\ \E c \in BagToSet(sent) : c.NextToken = printed[1].nextToken

====
